---- MODULE Spec2Model ----
(***************************************************************************)
(* A model of movie_recommendations.py: the Movie_Recommendations object   *)
(* (user_dict, movie_dict), the Movie objects it holds (title, users,      *)
(* similarities) and the operations predict_rating, predict_ratings,       *)
(* Movie.get_similarity and Movie.compute_similarity.                      *)
(*                                                                         *)
(* Python floats are modelled as exact rationals [num, den] in lowest      *)
(* terms with a positive denominator.  Every rating of the model is an     *)
(* integer, so the sums of absolute differences are exact in binary        *)
(* floating point as well; the rounding of the divisions is not modelled.  *)
(***************************************************************************)
EXTENDS Integers, Sequences, FiniteSets, TLC

VARIABLES
    phase,          \* "loading": __init__ reads the training file; "ready": it returned; "failed": it raised
    user_dict,      \* self.user_dict: user id -> (movie id -> rating)
    movie_dict,     \* self.movie_dict: movie id -> Movie (title, users, similarities)
    compute_calls,  \* instrumentation: calls of compute_similarity per unordered pair of movies
    last            \* the last call made on the loaded object: operation, arguments, outcome

vars == <<phase, user_dict, movie_dict, compute_calls, last>>

----------------------------------------------------------------------------
(* Bounds of the model. *)

\* Lines of the training ratings file that __init__ reads at most.
MaxTrain == 3

\* The same for the training files with repeated lines (NextDup).
MaxTrainDup == 6

\* The same for the training files over three movies (Next3).
MaxTrain3 == 5

\* Lines of a test ratings file handed to predict_ratings at most.
MaxBatch == 2

\* Cap of the instrumentation counter compute_calls.
MaxComputeCalls == 2

\* A movie id that is in no movies file.
UnknownMovie == 9

\* The movies files: movie id -> title.
Movies2 == (1 :> "A") @@ (2 :> "B")

Movies3 == (1 :> "A") @@ (2 :> "B") @@ (3 :> "C")

----------------------------------------------------------------------------
(* Python numbers as exact rationals. *)

Abs(n) == IF n < 0 THEN -n ELSE n

RECURSIVE GCD(_, _)
GCD(a, b) == IF b = 0 THEN a ELSE GCD(b, a % b)

\* The rational n/d (d # 0) in lowest terms, denominator positive.
Rat(n, d) ==
    LET g == GCD(Abs(n), Abs(d))
        s == IF d < 0 THEN -1 ELSE 1
    IN  [num |-> (s * n) \div g, den |-> (s * d) \div g]

RAdd(x, y) == Rat(x.num * y.den + y.num * x.den, x.den * y.den)
RSub(x, y) == Rat(x.num * y.den - y.num * x.den, x.den * y.den)
RMul(x, y) == Rat(x.num * y.num, x.den * y.den)
RDiv(x, y) == Rat(x.num * y.den, x.den * y.num)
RAbs(x) == [num |-> Abs(x.num), den |-> x.den]

Zero == Rat(0, 1)
One == Rat(1, 1)

\* Python's None.
None == [none |-> TRUE]

\* How a call ends: it returns a value or raises an exception.
Return(v) == [kind |-> "return", value |-> v]
Raise(e) == [kind |-> "raise", exc |-> e]

----------------------------------------------------------------------------
(* Movie.__init__ *)

Movie(id, title) ==
    [id |-> id, title |-> title, users |-> <<>>, similarities |-> <<>>]

\* d[k] = v of a Python dict d
DictSet(d, k, v) == (k :> v) @@ d

----------------------------------------------------------------------------
(* Movie.compute_similarity *)

\* `user in movie_2_users`
InList(user, users) == \E j \in 1..Len(users) : users[j] = user

\* The loop over movie_1_users from entry k on, total and count so far given:
\* a user who is also in movie_2_users adds the absolute difference of the
\* two ratings to total and one to count.
RECURSIVE SimilarityLoop(_, _, _, _, _, _, _)
SimilarityLoop(md, ud, self, other, k, total, count) ==
    IF k > Len(md[self].users) THEN [total |-> total, count |-> count]
    ELSE IF InList(md[self].users[k], md[other].users)
    THEN SimilarityLoop(md, ud, self, other, k + 1,
            RAdd(total, RAbs(RSub(ud[md[self].users[k]][md[self].id],
                                  ud[md[self].users[k]][other]))),
            count + 1)
    ELSE SimilarityLoop(md, ud, self, other, k + 1, total, count)

\* similarity = 0 without a common user, else 1 - (avg_diff / 4.5)
SimilarityOf(total, count) ==
    IF count = 0
    THEN Zero
    ELSE RSub(One, RDiv(RDiv(total, Rat(count, 1)), Rat(9, 2)))

ComputeSimilarity(md, ud, self, other) ==
    LET acc == SimilarityLoop(md, ud, self, other, 1, Zero, 0)
    IN  SimilarityOf(acc.total, acc.count)

----------------------------------------------------------------------------
(* Movie.get_similarity *)

\* A faulty IsCached: the cache is never consulted.
IsCachedNever(md, self, other) == FALSE

\* `other_movie_id in self.similarities`
IsCached(md, self, other) == other \in DOMAIN md[self].similarities

\* A faulty StoreSimilarity: the store in the other movie is missing.
StoreSimilarityOneSide(md, self, other, similarity) ==
    [md EXCEPT ![self].similarities = DictSet(@, other, similarity)]

\* A faulty StoreSimilarity: self's cache is replaced, not extended.
StoreSimilarityReplace(md, self, other, similarity) ==
    LET md1 == [md EXCEPT ![self].similarities = (other :> similarity)]
    IN  [md1 EXCEPT ![other].similarities = DictSet(@, md[self].id, similarity)]

\* The two stores of a computed similarity, in self and in the other movie.
StoreSimilarity(md, self, other, similarity) ==
    LET md1 == [md EXCEPT ![self].similarities = DictSet(@, other, similarity)]
    IN  [md1 EXCEPT ![other].similarities = DictSet(@, md[self].id, similarity)]

\* One more call of compute_similarity for the pair, up to the cap.
CountCompute(calls, self, other) ==
    [calls EXCEPT ![{self, other}] =
        IF @ < MaxComputeCalls THEN @ + 1 ELSE @]

\* What `except BadInputError: pass` leaves the call with.
SwallowedBadInput == Return(None)

\* The call's effect on movie_dict and on the instrumentation, and its outcome.
GetSimilarity(md, ud, calls, self, other) ==
    IF IsCached(md, self, other)
    THEN [md |-> md, calls |-> calls,
          outcome |-> Return(md[self].similarities[other])]
    ELSE IF other \notin DOMAIN md
    THEN [md |-> md, calls |-> calls, outcome |-> SwallowedBadInput]
    ELSE LET similarity == ComputeSimilarity(md, ud, self, other)
         IN  [md |-> StoreSimilarity(md, self, other, similarity),
              calls |-> CountCompute(calls, self, other),
              outcome |-> Return(similarity)]

----------------------------------------------------------------------------
(* Movie_Recommendations.predict_rating *)

\* A faulty ValidIds: the movie id is not checked.
ValidIdsUserOnly(md, ud, user_id, movie_id) == user_id \in DOMAIN ud

\* `user_id in self.user_dict and movie_id in self.movie_dict`
ValidIds(md, ud, user_id, movie_id) ==
    user_id \in DOMAIN ud /\ movie_id \in DOMAIN md

\* A faulty AlreadyRated: the short-circuit for a rated movie is missing.
AlreadyRatedNever(ud, user_id, movie_id) == FALSE

\* `movie_id in self.user_dict[user_id]`
AlreadyRated(ud, user_id, movie_id) == movie_id \in DOMAIN ud[user_id]

\* The else branch of the validity check.
InvalidOutcome == Raise("BadInputError")

\* A faulty Prediction: the division is not guarded.
PredictionUnguarded(numerator, denominator) ==
    IF denominator = Zero THEN Raise("ZeroDivisionError")
    ELSE Return(RDiv(numerator, denominator))

\* The end of the prediction: the fallback or the weighted average.
Prediction(numerator, denominator) ==
    IF denominator = Zero THEN Return(Rat(5, 2))
    ELSE Return(RDiv(numerator, denominator))

Min(S) == CHOOSE x \in S : \A y \in S : x <= y

\* The element of a one-element set.  The({F(x) : x \in {e}}) is F(e) with e
\* evaluated once.
The(S) == CHOOSE x \in S : TRUE

\* One iteration of the loop over movies_seen: the two get_similarity calls
\* of movie_dict[movie_id] for `movie` and the two additions.  A None from
\* get_similarity makes the arithmetic raise TypeError; a movie_id that is
\* no key of movie_dict raises KeyError.
PredictIteration(md, ud, calls, user_id, movie_id, movie, numerator, denominator) ==
    IF movie_id \notin DOMAIN md
    THEN [md |-> md, calls |-> calls, outcome |-> Raise("KeyError")]
    ELSE LET g1 == GetSimilarity(md, ud, calls, movie_id, movie)
             g2 == GetSimilarity(g1.md, ud, g1.calls, movie_id, movie)
         IN  IF g1.outcome.value = None
             THEN [md |-> g1.md, calls |-> g1.calls, outcome |-> Raise("TypeError")]
             ELSE IF g2.outcome.value = None
             THEN [md |-> g2.md, calls |-> g2.calls, outcome |-> Raise("TypeError")]
             ELSE [md |-> g2.md, calls |-> g2.calls, outcome |-> Return(None),
                   numerator |-> RAdd(numerator,
                                      RMul(ud[user_id][movie], g1.outcome.value)),
                   denominator |-> RAdd(denominator, g2.outcome.value)]

\* The loop over movies_seen, for the movies of `todo`, and the prediction
\* that follows it.
RECURSIVE PredictLoop(_, _, _, _, _, _, _, _)
PredictLoop(md, ud, calls, user_id, movie_id, todo, numerator, denominator) ==
    IF todo = {}
    THEN [md |-> md, calls |-> calls, outcome |-> Prediction(numerator, denominator)]
    ELSE The({ IF it.outcome.kind = "raise" THEN it
               ELSE PredictLoop(it.md, ud, it.calls, user_id, movie_id,
                                todo \ {Min(todo)}, it.numerator, it.denominator)
             : it \in {PredictIteration(md, ud, calls, user_id, movie_id,
                                         Min(todo), numerator, denominator)} })

PredictRating(md, ud, calls, user_id, movie_id) ==
    IF ValidIds(md, ud, user_id, movie_id)
    THEN IF AlreadyRated(ud, user_id, movie_id)
         THEN [md |-> md, calls |-> calls, outcome |-> Return(ud[user_id][movie_id])]
         ELSE PredictLoop(md, ud, calls, user_id, movie_id,
                          DOMAIN ud[user_id], Zero, Zero)
    ELSE [md |-> md, calls |-> calls, outcome |-> InvalidOutcome]

----------------------------------------------------------------------------
(* Movie_Recommendations.predict_ratings *)

\* A faulty AppendTuple: the tuple is put at the front.
AppendTuplePrepend(movie_list, movie_tup) == <<movie_tup>> \o movie_list

\* movie_list.append(movie_tup)
AppendTuple(movie_list, movie_tup) == Append(movie_list, movie_tup)

\* The loop over the lines of the test ratings file, from line k on.  An
\* exception of predict_rating ends the call.
RECURSIVE PredictRatingsLoop(_, _, _, _, _, _)
PredictRatingsLoop(md, ud, calls, lines, k, movie_list) ==
    IF k > Len(lines)
    THEN [md |-> md, calls |-> calls, outcome |-> Return(movie_list)]
    ELSE The({ IF p.outcome.kind = "raise" THEN p
               ELSE PredictRatingsLoop(
                      p.md, ud, p.calls, lines, k + 1,
                      AppendTuple(movie_list,
                          <<lines[k][1], p.md[lines[k][2]].title,
                            p.outcome.value, lines[k][3]>>))
             : p \in {PredictRating(md, ud, calls, lines[k][1], lines[k][2])} })

PredictRatings(md, ud, calls, lines) ==
    PredictRatingsLoop(md, ud, calls, lines, 1, <<>>)

----------------------------------------------------------------------------
(* The state machine. *)

\* No call has been made yet.
NoCall == [op |-> "none"]

\* Movie_Recommendations.__init__ up to the loop over the training file:
\* both dictionaries created and the movies file read.
InitCatalog(movies) ==
    /\ phase = "loading"
    /\ user_dict = <<>>
    /\ movie_dict = [m \in DOMAIN movies |-> Movie(m, movies[m])]
    /\ compute_calls = [p \in {{a, b} : a, b \in DOMAIN movies} |-> 0]
    /\ last = NoCall

\* The number of training lines read so far: every line read so far has
\* appended one user to one movie's list.
RECURSIVE LinesIn(_)
LinesIn(S) ==
    IF S = {} THEN 0
    ELSE LET m == Min(S) IN Len(movie_dict[m].users) + LinesIn(S \ {m})

LinesRead == LinesIn(DOMAIN movie_dict)

\* The update of user_dict by a training line.
AddRating(ud, user, movie, rating) ==
    IF user \in DOMAIN ud
    THEN [ud EXCEPT ![user] = DictSet(@, movie, rating)]
    ELSE DictSet(ud, user, (movie :> rating))

\* One iteration of the loop over the training file, on a line
\* (user, movie, rating) whose movie is in the movies file.
LoadRating(line) ==
    /\ phase = "loading"
    /\ line[2] \in DOMAIN movie_dict
    /\ user_dict' = AddRating(user_dict, line[1], line[2], line[3])
    /\ movie_dict' = [movie_dict EXCEPT ![line[2]].users = Append(@, line[1])]
    /\ UNCHANGED <<phase, compute_calls, last>>

\* The same iteration on a line whose movie is not in the movies file:
\* self.movie_dict[...] raises KeyError and no object is constructed.
LoadUnknownMovie(line) ==
    /\ phase = "loading"
    /\ line[2] \notin DOMAIN movie_dict
    /\ user_dict' = AddRating(user_dict, line[1], line[2], line[3])
    /\ phase' = "failed"
    /\ UNCHANGED <<movie_dict, compute_calls, last>>

\* The training file ends and __init__ returns.
FinishLoad ==
    /\ phase = "loading"
    /\ phase' = "ready"
    /\ UNCHANGED <<user_dict, movie_dict, compute_calls, last>>

\* The instrumentation counter has room for one more call.
CounterHasRoom == \A p \in DOMAIN compute_calls : compute_calls[p] < MaxComputeCalls

\* A call predict_rating(user_id, movie_id) on the loaded object.
CallPredictRating(user_id, movie_id) ==
    /\ phase = "ready"
    /\ CounterHasRoom
    /\ \E r \in {PredictRating(movie_dict, user_dict, compute_calls, user_id, movie_id)} :
           /\ movie_dict' = r.md
           /\ compute_calls' = r.calls
           /\ last' = [op |-> "predict_rating", user_id |-> user_id,
                       movie_id |-> movie_id, outcome |-> r.outcome]
    /\ UNCHANGED <<phase, user_dict>>

\* A call movie_dict[self].get_similarity(other, movie_dict, user_dict).
CallGetSimilarity(self, other) ==
    /\ phase = "ready"
    /\ CounterHasRoom
    /\ \E r \in {GetSimilarity(movie_dict, user_dict, compute_calls, self, other)} :
           /\ movie_dict' = r.md
           /\ compute_calls' = r.calls
           /\ last' = [op |-> "get_similarity", self |-> self,
                       other |-> other, outcome |-> r.outcome]
    /\ UNCHANGED <<phase, user_dict>>

\* A call predict_ratings(file), the file given as its lines
\* (user, movie, actual rating).
CallPredictRatings(lines) ==
    /\ phase = "ready"
    /\ CounterHasRoom
    /\ \E r \in {PredictRatings(movie_dict, user_dict, compute_calls, lines)} :
           /\ movie_dict' = r.md
           /\ compute_calls' = r.calls
           /\ last' = [op |-> "predict_ratings", lines |-> lines, outcome |-> r.outcome]
    /\ UNCHANGED <<phase, user_dict>>

----------------------------------------------------------------------------
(* Spec: two movies, every operation. *)

UserIds == {1, 2}

\* The lines a training file is made of: two users, the two movies and one
\* unknown movie, the lowest and the highest rating.
TrainLines == UserIds \X (DOMAIN Movies2 \cup {UnknownMovie}) \X {Rat(0, 1), Rat(5, 1)}

\* The lines a test ratings file is made of.
TestLines == {<<1, 2, Rat(3, 1)>>, <<2, 1, Rat(4, 1)>>}

TestFiles == UNION {[1..n -> TestLines] : n \in 0..MaxBatch}

Init == InitCatalog(Movies2)

Next ==
    \/ LinesRead < MaxTrain /\ \E line \in TrainLines : LoadRating(line)
    \/ LinesRead < MaxTrain /\ \E line \in TrainLines : LoadUnknownMovie(line)
    \/ FinishLoad
    \/ \E u \in UserIds, m \in DOMAIN Movies2 \cup {UnknownMovie} : CallPredictRating(u, m)
    \/ \E a \in DOMAIN Movies2, b \in DOMAIN Movies2 \cup {UnknownMovie} : CallGetSimilarity(a, b)
    \/ \E lines \in TestFiles : CallPredictRatings(lines)

Spec == Init /\ [][Next]_vars

----------------------------------------------------------------------------
(* SpecDup: two movies, three users, training files that may repeat a line. *)

UserIdsDup == {1, 2, 3}

\* Users 1 and 2 rate both movies, with absolute differences 4 and 5; user 3
\* rates movie 1 only.
DupLines ==
    { <<1, 1, Rat(5, 1)>>, <<1, 2, Rat(1, 1)>>,
      <<2, 1, Rat(5, 1)>>, <<2, 2, Rat(0, 1)>>,
      <<3, 1, Rat(5, 1)>> }

NextDup ==
    \/ LinesRead < MaxTrainDup /\ \E line \in DupLines : LoadRating(line)
    \/ FinishLoad
    \/ \E u \in UserIdsDup, m \in DOMAIN Movies2 : CallPredictRating(u, m)
    \/ \E a \in DOMAIN Movies2, b \in DOMAIN Movies2 : CallGetSimilarity(a, b)

SpecDup == Init /\ [][NextDup]_vars

----------------------------------------------------------------------------
(* Spec3: three movies, so that a user's prediction weighs two ratings. *)

\* User 1 rates movies 1 and 2; user 2 rates all three, movie 3 with 5 and
\* movies 1 and 2 at distances 4 and 5 (or 0) from it.
Lines3 ==
    { <<1, 1, Rat(5, 1)>>, <<1, 2, Rat(0, 1)>>,
      <<2, 1, Rat(1, 1)>>, <<2, 2, Rat(0, 1)>>, <<2, 2, Rat(5, 1)>>,
      <<2, 3, Rat(5, 1)>> }

Init3 == InitCatalog(Movies3)

Next3 ==
    \/ LinesRead < MaxTrain3 /\ \E line \in Lines3 : LoadRating(line)
    \/ FinishLoad
    \/ \E u \in UserIds, m \in DOMAIN Movies3 \cup {UnknownMovie} : CallPredictRating(u, m)
    \/ \E a \in DOMAIN Movies3 : \E b \in DOMAIN Movies3 \ {a} : CallGetSimilarity(a, b)

Spec3 == Init3 /\ [][Next3]_vars

----------------------------------------------------------------------------
(* Properties. *)

Loaded == phase = "ready"

Users == DOMAIN user_dict
Items == DOMAIN movie_dict
Cache(a) == movie_dict[a].similarities

\* Some similarity has been cached by an earlier call.
SomeCached == \E a \in Items : DOMAIN Cache(a) # {}

\* The step is a call predict_rating.
PredictStep == Loaded /\ last'.op = "predict_rating"

\* The user of the call has a rating for its movie.
RatedCall(call) ==
    /\ call.user_id \in Users
    /\ call.movie_id \in Items
    /\ call.movie_id \in DOMAIN user_dict[call.user_id]

\* C1: predict_rating for a user who has rated the movie returns the stored
\* rating, whatever the caches hold, and adds no entry to any cache.
C1_RatedReturnsStored ==
    [][(PredictStep /\ RatedCall(last'))
         => /\ last'.outcome = Return(user_dict[last'.user_id][last'.movie_id])
            /\ movie_dict' = movie_dict]_vars

C1_Witness ==
    /\ Loaded /\ last.op = "predict_rating" /\ RatedCall(last)
    /\ SomeCached
    /\ last.outcome = Return(user_dict[last.user_id][last.movie_id])

\* C2: predict_rating raises BadInputError when the user is not in user_dict
\* or the movie is not in movie_dict, and leaves every cache as it was.
C2_BadInput ==
    [][(PredictStep /\ (last'.user_id \notin Users \/ last'.movie_id \notin Items))
         => /\ last'.outcome = Raise("BadInputError")
            /\ movie_dict' = movie_dict]_vars

C2_Witness ==
    /\ Loaded /\ last.op = "predict_rating"
    /\ last.user_id \in Users /\ last.movie_id \notin Items
    /\ SomeCached
    /\ last.outcome = Raise("BadInputError")

\* C3: get_similarity of a known movie with an id that is not in movie_dict
\* ends with an exception raised to the caller, not with a normal return.
C3_UnknownItemRaises ==
    (last.op = "get_similarity" /\ last.self \in Items /\ last.other \notin Items)
        => last.outcome.kind = "raise"

\* C4: the caches are symmetric: B is a key of A's cache iff A is a key of
\* B's, with the same value; so after get_similarity(A, B) returned v, the
\* call get_similarity(B, A) finds v in B's cache.
C4_SymmetricCache ==
    /\ \A a \in Items : \A b \in Items :
          /\ (b \in DOMAIN Cache(a)) <=> (a \in DOMAIN Cache(b))
          /\ b \in DOMAIN Cache(a) => Cache(a)[b] = Cache(b)[a]
    /\ \A a \in Items : DOMAIN Cache(a) \subseteq Items
    /\ (last.op = "get_similarity" /\ last.other \in Items)
          => /\ last.self \in DOMAIN Cache(last.other)
             /\ Cache(last.other)[last.self] = last.outcome.value

\* The two movies of the last get_similarity hold one value for each other,
\* although computing it from the one and from the other would differ.
C4_Witness ==
    /\ last.op = "get_similarity" /\ last.self # last.other
    /\ last.other \in DOMAIN Cache(last.self)
    /\ Cache(last.other)[last.self] = last.outcome.value
    /\ ComputeSimilarity(movie_dict, user_dict, last.self, last.other)
          # ComputeSimilarity(movie_dict, user_dict, last.other, last.self)

\* The users who rated movie m, as a set.
Raters(m) == {movie_dict[m].users[k] : k \in 1..Len(movie_dict[m].users)}

RECURSIVE SumAbsDiff(_, _, _)
SumAbsDiff(S, a, b) ==
    IF S = {} THEN Zero
    ELSE LET u == Min(S)
         IN  RAdd(RAbs(RSub(user_dict[u][a], user_dict[u][b])),
                  SumAbsDiff(S \ {u}, a, b))

\* 0 without a common rater, else 1 - (D / 4.5), D the mean absolute
\* difference of the two ratings over the common raters.
MeanDiffSimilarity(a, b) ==
    LET common == Raters(a) \cap Raters(b)
    IN  IF common = {} THEN Zero
        ELSE RSub(One, RDiv(RDiv(SumAbsDiff(common, a, b),
                                 Rat(Cardinality(common), 1)),
                            Rat(9, 2)))

\* C5: every cached similarity of a pair (a, b) is 0 when no user rated both
\* and else 1 - (D / 4.5) with D the mean over the set of common raters,
\* also when the training file repeats a line.
C5_SimilarityValue ==
    \A a \in Items : \A b \in DOMAIN Cache(a) :
        Cache(a)[b] = MeanDiffSimilarity(a, b)

\* The sums of the weighted average over the movies S a user has rated,
\* read from the target movie's cache.
RECURSIVE WeightSum(_, _)
WeightSum(i, S) ==
    IF S = {} THEN Zero
    ELSE LET m == Min(S) IN RAdd(Cache(i)[m], WeightSum(i, S \ {m}))

RECURSIVE WeightedRatingSum(_, _, _)
WeightedRatingSum(u, i, S) ==
    IF S = {} THEN Zero
    ELSE LET m == Min(S)
         IN  RAdd(RMul(user_dict[u][m], Cache(i)[m]),
                  WeightedRatingSum(u, i, S \ {m}))

\* The last call was predict_rating of a known user for a known movie the
\* user has not rated.
LastPredictUnrated ==
    /\ last.op = "predict_rating"
    /\ last.user_id \in Users /\ last.movie_id \in Items
    /\ last.movie_id \notin DOMAIN user_dict[last.user_id]

\* C6: for a movie the user has not rated, predict_rating returns 2.5 when
\* the similarities of the movie to the user's rated movies sum to zero, and
\* else the similarity-weighted mean of the user's ratings; it never raises.
C6_WeightedAverage ==
    LastPredictUnrated =>
        LET u == last.user_id
            i == last.movie_id
            seen == DOMAIN user_dict[u]
        IN  /\ seen \subseteq DOMAIN Cache(i)
            /\ last.outcome =
                 IF WeightSum(i, seen) = Zero
                 THEN Return(Rat(5, 2))
                 ELSE Return(RDiv(WeightedRatingSum(u, i, seen), WeightSum(i, seen)))

\* Two similarities that are not zero cancel, and the fallback is returned.
C6_Witness ==
    /\ LastPredictUnrated
    /\ \E m \in DOMAIN user_dict[last.user_id] : Cache(last.movie_id)[m] # Zero
    /\ WeightSum(last.movie_id, DOMAIN user_dict[last.user_id]) = Zero
    /\ WeightedRatingSum(last.user_id, last.movie_id,
                         DOMAIN user_dict[last.user_id]) # Zero
    /\ last.outcome = Return(Rat(5, 2))

\* Every line of the file names a known user and a known movie.
AllKnown(lines) ==
    \A k \in 1..Len(lines) : lines[k][1] \in Users /\ lines[k][2] \in Items

\* C7: predict_ratings on lines that are all known returns one tuple per
\* line, in the order of the lines: (user, title of the movie, the value of
\* predict_rating, actual rating); when predict_rating raises on a line,
\* the exception reaches the caller and no list is returned.
C7_BatchTuples ==
    last.op = "predict_ratings" =>
        IF AllKnown(last.lines)
        THEN /\ last.outcome.kind = "return"
             /\ Len(last.outcome.value) = Len(last.lines)
             /\ \A k \in 1..Len(last.lines) :
                  last.outcome.value[k] =
                    << last.lines[k][1],
                       movie_dict[last.lines[k][2]].title,
                       PredictRating(movie_dict, user_dict, compute_calls,
                                     last.lines[k][1], last.lines[k][2]).outcome.value,
                       last.lines[k][3] >>
        ELSE last.outcome = Raise("BadInputError")

C7_Witness ==
    /\ last.op = "predict_ratings" /\ AllKnown(last.lines)
    /\ Len(last.lines) = 2 /\ last.lines[1] # last.lines[2]
    /\ last.outcome.kind = "return"
    /\ last.outcome.value[1][3] # last.outcome.value[2][3]
    /\ last.lines[1][2] \notin DOMAIN user_dict[last.lines[1][1]]

\* C8: compute_similarity runs at most once per unordered pair of movies,
\* and a pair is cached exactly when it has been computed.
C8_ComputedOnce ==
    \A a \in Items : \A b \in Items :
        /\ compute_calls[{a, b}] <= 1
        /\ (b \in DOMAIN Cache(a)) <=> (compute_calls[{a, b}] = 1)

\* A prediction has made its two lookups of one pair, after the pair had
\* been asked for in the other direction or in this one.
C8_Witness ==
    /\ LastPredictUnrated
    /\ \E m \in DOMAIN user_dict[last.user_id] :
          /\ compute_calls[{last.movie_id, m}] = 1
          /\ Cache(m)[last.movie_id] # Zero

\* The ratings and the catalogue apart from the caches.
Stores ==
    <<user_dict,
      [m \in Items |-> <<movie_dict[m].id, movie_dict[m].title, movie_dict[m].users>>]>>

\* C9: once loaded, no call changes the users, their ratings, the movies,
\* their titles or their lists of users; a cache entry, once made, is never
\* removed and never changes.
C9_OnlyCachesGrow ==
    [][Loaded =>
         /\ Stores' = Stores
         /\ \A a \in Items : \A b \in DOMAIN Cache(a) :
               /\ b \in DOMAIN movie_dict'[a].similarities
               /\ movie_dict'[a].similarities[b] = Cache(a)[b]]_vars

C9_Witness ==
    /\ Loaded /\ last.op # "none"
    /\ \E a \in Items : Cardinality(DOMAIN Cache(a)) = 2
    /\ last.outcome.kind = "return"

\* The movies with empty caches, as __init__ leaves them.
FreshCaches(md) == [m \in DOMAIN md |-> [md[m] EXCEPT !.similarities = <<>>]]

\* C10: the outcome of predict_rating is the one the same call has with
\* empty caches, whatever calls were made before.
C10_CacheTransparent ==
    last.op = "predict_rating" =>
        last.outcome = PredictRating(FreshCaches(movie_dict), user_dict, compute_calls,
                                     last.user_id, last.movie_id).outcome

====
